---- MODULE Spec2Model ----
(***************************************************************************)
(* Peer-reputation store of p2p/persistence.py: SQLitePeerInfoPersistence  *)
(* instances over one durable sqlite file, a clock with sub-second         *)
(* resolution, process crashes and foreign writers of the file.            *)
(*                                                                         *)
(* Times are counted in ticks; TicksPerSecond ticks make one second.  The  *)
(* text form of a timestamp (time_to_str) has whole-second resolution and  *)
(* is represented by the number of whole seconds it spells out.            *)
(***************************************************************************)
EXTENDS Integers, Sequences, FiniteSets, TLC

\* ---------------------------------------------------------------- bounds
TicksPerSecond == 2
MaxTime == 4
MaxTimeout == 1
MaxErrors == 2
MaxVersionRows == 2

Peers == {"pA", "pB"}
Reasons == {"r1", "r2"}
Timeouts == 1..MaxTimeout
\* the variables that hold a store object; one owner uses the first only
Instances == {1, 2}
Owner == {1}

\* the schema version setup_schema writes and _schema_already_created accepts
SchemaVersion == 1

NoRow == [enode |-> "none"]
NoPend == [enode |-> "none"]
NoFail == [at |-> -1, timeout |-> 0]

VARIABLES
    clock,      \* current_time(), in ticks
    disk,       \* the sqlite file: tables, rows of schema_version, rows of bad_nodes
    inst,       \* the SQLitePeerInfoPersistence instances of the running process
    result,     \* the last call: operation, instance, outcome
    lastFail,   \* history: per peer, clock and timeout of the last record_failure
    foreign,    \* history: another program has written the file
    mem,        \* the private ":memory:" database of each MemoryPeerInfoPersistence
    pend,       \* per instance: the record_failure call that has fetched its row
                \* and read the clock, and has not written yet
    calls,      \* history: per instance and peer, the record_failure calls begun
    raced       \* history: per peer, two such calls have overlapped

\* what only the specifications of ephemeral and of concurrent stores change
aux == <<mem, pend, calls, raced>>

vars == <<clock, disk, inst, result, lastFail, foreign, mem, pend, calls, raced>>

\* ------------------------------------------------------ time conversions
current_time == clock

\* a formatting that rounds to the nearest second
time_to_str_rounding(time) == (time + TicksPerSecond \div 2) \div TicksPerSecond

\* isoformat(timespec='seconds'): the sub-second part is dropped
time_to_str(time) == time \div TicksPerSecond

\* strptime("%Y-%m-%dT%H:%M:%S"): the instant at the start of that second
str_to_time(as_str) == as_str * TicksPerSecond

\* datetime.timedelta(seconds=n)
timedelta(seconds) == seconds * TicksPerSecond

\* ------------------------------------------------------------ the tables
EmptyDisk == [tables |-> {}, schema_version |-> <<>>, bad_nodes |-> <<>>]

RECURSIVE FirstMatch(_, _, _)
FirstMatch(rows, enode, k) ==
    IF k > Len(rows) THEN NoRow
    ELSE IF rows[k].enode = enode THEN rows[k]
    ELSE FirstMatch(rows, enode, k + 1)

\* a SELECT that lost its WHERE clause: the first row, whose ever it is
fetch_node_any(d, enode) ==
    IF Len(d.bad_nodes) > 0 THEN d.bad_nodes[1] ELSE NoRow

\* SELECT * from bad_nodes WHERE enode = ? ; fetchone()
fetch_node(d, enode) == FirstMatch(d.bad_nodes, enode, 1)

\* INSERT INTO bad_nodes (enode, until, reason, error_count) VALUES (...)
insert_node(d, enode, until, reason, error_count) ==
    [d EXCEPT !.bad_nodes = Append(@, [enode |-> enode,
                                       until |-> time_to_str(until),
                                       reason |-> reason,
                                       error_count |-> error_count])]

\* an UPDATE without its WHERE clause: every row is rewritten
update_node_all(d, enode, until, reason, error_count) ==
    [d EXCEPT !.bad_nodes =
        [k \in 1..Len(@) |->
            [enode |-> @[k].enode,
             until |-> time_to_str(until),
             reason |-> reason,
             error_count |-> error_count]]]

\* UPDATE bad_nodes SET until = ?, reason = ?, error_count = ? WHERE enode = ?
update_node(d, enode, until, reason, error_count) ==
    [d EXCEPT !.bad_nodes =
        [k \in 1..Len(@) |->
            IF @[k].enode = enode
            THEN [enode |-> enode,
                  until |-> time_to_str(until),
                  reason |-> reason,
                  error_count |-> error_count]
            ELSE @[k]]]

\* ------------------------------------------------------------ the schema
\* a version check that looks at the first row only
schema_already_created_first_row(d) ==
    IF "schema_version" \notin d.tables THEN "False"
    ELSE IF Len(d.schema_version) = 0 THEN "Exception"
    ELSE IF d.schema_version[1] # SchemaVersion THEN "Exception"
    ELSE "True"

\* "True", "False", or "Exception" for a malformed or unsupported version
schema_already_created(d) ==
    IF "schema_version" \notin d.tables THEN "False"
    ELSE IF Len(d.schema_version) # 1 THEN "Exception"
    ELSE IF d.schema_version[1] # SchemaVersion THEN "Exception"
    ELSE "True"

\* a schema block that writes the version before it creates bad_nodes
create_schema_version_first(d, k) ==
    IF k = 0 THEN [db |-> d, ret |-> "None"]
    ELSE IF "schema_version" \in d.tables THEN [db |-> d, ret |-> "OperationalError"]
    ELSE LET d1 == [d EXCEPT !.tables = @ \cup {"schema_version"},
                             !.schema_version = <<>>] IN
         IF k = 1 THEN [db |-> d1, ret |-> "None"]
         ELSE LET d2 == [d1 EXCEPT !.schema_version = Append(@, SchemaVersion)] IN
              IF k = 2 THEN [db |-> d2, ret |-> "None"]
              ELSE IF "bad_nodes" \in d2.tables
                   THEN [db |-> d2, ret |-> "OperationalError"]
              ELSE [db |-> [d2 EXCEPT !.tables = @ \cup {"bad_nodes"}], ret |-> "None"]

\* The three statements of the "with self.db:" block of setup_schema, the
\* first k of them executed.  sqlite3 opens a transaction only in front of
\* INSERT/UPDATE/DELETE/REPLACE, so each "create table" is committed on its
\* own; the insert is committed when the block is left.  A "create table"
\* of an existing table raises OperationalError and ends the block.
create_schema(d, k) ==
    IF k = 0 THEN [db |-> d, ret |-> "None"]
    ELSE IF "bad_nodes" \in d.tables THEN [db |-> d, ret |-> "OperationalError"]
    ELSE LET d1 == [d EXCEPT !.tables = @ \cup {"bad_nodes"}] IN
         IF k = 1 THEN [db |-> d1, ret |-> "None"]
         ELSE IF "schema_version" \in d1.tables
              THEN [db |-> d1, ret |-> "OperationalError"]
         ELSE LET d2 == [d1 EXCEPT !.tables = @ \cup {"schema_version"},
                                   !.schema_version = <<>>] IN
              IF k = 2 THEN [db |-> d2, ret |-> "None"]
              ELSE [db |-> [d2 EXCEPT !.schema_version = Append(@, SchemaVersion)],
                    ret |-> "None"]

\* a setup_schema that never looks for an existing schema and writes a new one
setup_schema_recreate(d) ==
    [db |-> create_schema(EmptyDisk, 3).db, ret |-> "None", close |-> FALSE]

\* a setup_schema that writes the version row again on every later open
setup_schema_reinsert(d) ==
    LET sac == schema_already_created(d) IN
    IF sac = "True"
    THEN [db |-> [d EXCEPT !.schema_version = Append(@, SchemaVersion)],
          ret |-> "None", close |-> FALSE]
    ELSE IF sac = "Exception" THEN [db |-> d, ret |-> "Exception", close |-> TRUE]
    ELSE LET c == create_schema(d, 3) IN
         [db |-> c.db, ret |-> c.ret, close |-> FALSE]

\* a setup_schema that rewrites a schema_version table it rejects
setup_schema_repair(d) ==
    LET sac == schema_already_created(d) IN
    IF sac = "True" THEN [db |-> d, ret |-> "None", close |-> FALSE]
    ELSE IF sac = "Exception"
    THEN [db |-> [d EXCEPT !.schema_version = <<SchemaVersion>>],
          ret |-> "Exception", close |-> TRUE]
    ELSE LET c == create_schema(d, 3) IN
         [db |-> c.db, ret |-> c.ret, close |-> FALSE]

\* setup_schema on an open instance: the storage afterwards, the outcome and
\* whether the instance closed itself
setup_schema(d) ==
    LET sac == schema_already_created(d) IN
    IF sac = "True" THEN [db |-> d, ret |-> "None", close |-> FALSE]
    ELSE IF sac = "Exception" THEN [db |-> d, ret |-> "Exception", close |-> TRUE]
    ELSE LET c == create_schema(d, 3) IN
         [db |-> c.db, ret |-> c.ret, close |-> FALSE]

\* ---------------------------------------------------------- the instances
NoInst == [st |-> "none", closed |-> FALSE, db |-> "None"]
OpenInst == [st |-> "live", closed |-> FALSE, db |-> "conn"]
ClosedInst == [st |-> "live", closed |-> TRUE, db |-> "None"]

\* a decorator that lets every call through
must_be_open_always(i) == TRUE

\* the must_be_open decorator: TRUE when the call is let through
must_be_open(i) == ~inst[i].closed

\* a close() that releases the handle and forgets to set the closed flag
close_forgets_flag(s) ==
    IF s.db = "None"
    THEN [inst |-> s, ret |-> "AttributeError"]
    ELSE [inst |-> [s EXCEPT !.db = "None"], ret |-> "None"]

\* close(): the instance afterwards and the outcome
close(s) ==
    IF s.db = "None"
    THEN [inst |-> s, ret |-> "AttributeError"]
    ELSE [inst |-> [s EXCEPT !.db = "None", !.closed = TRUE], ret |-> "None"]

\* a record_failure that never looks for the row and always inserts
record_failure_insert_only(d, enode, timeout, reason, now) ==
    insert_node(d, enode, now + timedelta(timeout), reason, 1)

\* a record_failure that updates the row without counting the failure
record_failure_no_increment(d, enode, timeout, reason, now) ==
    LET row == fetch_node(d, enode) IN
    IF row # NoRow
    THEN update_node(d, enode, now + timedelta(timeout * row.error_count),
                     reason, row.error_count)
    ELSE insert_node(d, enode, now + timedelta(timeout), reason, 1)

\* a record_failure that counts the failure but never lengthens the window
record_failure_flat(d, enode, timeout, reason, now) ==
    LET row == fetch_node(d, enode) IN
    IF row # NoRow
    THEN update_node(d, enode, now + timedelta(timeout), reason, row.error_count + 1)
    ELSE insert_node(d, enode, now + timedelta(timeout), reason, 1)

\* a record_failure that divides the timeout by the failure count
record_failure_divide(d, enode, timeout, reason, now) ==
    LET row == fetch_node(d, enode) IN
    IF row # NoRow
    THEN LET new_error_count == row.error_count + 1
             usable_time == now + timedelta(timeout \div new_error_count)
         IN update_node(d, enode, usable_time, reason, new_error_count)
    ELSE insert_node(d, enode, now + timedelta(timeout), reason, 1)

\* the body of record_failure: the storage afterwards
record_failure(d, enode, timeout, reason, now) ==
    LET row == fetch_node(d, enode) IN
    IF row # NoRow
    THEN LET new_error_count == row.error_count + 1
             usable_time == now + timedelta(timeout * new_error_count)
         IN update_node(d, enode, usable_time, reason, new_error_count)
    ELSE LET usable_time == now + timedelta(timeout)
         IN insert_node(d, enode, usable_time, reason, 1)

\* a record_failure whose UPDATE is committed field by field: dying after the
\* statement leaves the new error_count beside the old until and reason
record_failure_crash_torn(d, enode, timeout, reason, now, k) ==
    IF k < 2 THEN d
    ELSE IF k = 2
    THEN LET row == fetch_node(d, enode) IN
         IF row = NoRow THEN d
         ELSE [d EXCEPT !.bad_nodes =
                 [n \in 1..Len(@) |->
                     IF @[n].enode = enode
                     THEN [@[n] EXCEPT !.error_count = row.error_count + 1]
                     ELSE @[n]]]
    ELSE record_failure(d, enode, timeout, reason, now)

\* record_failure cut short by the death of the process, k of its steps done:
\* 1 the row fetched, 2 the single INSERT or UPDATE executed inside the
\* transaction "with self.db:" opened, 3 the transaction committed.  The
\* storage keeps what was committed; an open transaction is rolled back.
record_failure_crash(d, enode, timeout, reason, now, k) ==
    IF k < 3 THEN d
    ELSE record_failure(d, enode, timeout, reason, now)

\* a should_connect_to that still holds the peer back at unusable_until itself
should_connect_to_inclusive(d, enode, now) ==
    LET row == fetch_node(d, enode) IN
    IF row = NoRow THEN "True"
    ELSE IF now <= str_to_time(row.until) THEN "False"
    ELSE "True"

\* the body of should_connect_to: "True" or "False"
should_connect_to(d, enode, now) ==
    LET row == fetch_node(d, enode) IN
    IF row = NoRow THEN "True"
    ELSE IF now < str_to_time(row.until) THEN "False"
    ELSE "True"

\* what a call that reaches self.db.execute on bad_nodes raises, if anything
db_error(i) ==
    IF inst[i].db = "None" THEN "AttributeError"
    ELSE IF "bad_nodes" \notin disk.tables THEN "OperationalError"
    ELSE "None"

\* what h.should_connect_to(p) gives at this moment: "True", "False" or the
\* exception it raises
call_should_connect_to(i, p) ==
    IF ~must_be_open(i) THEN "ClosedException"
    ELSE IF db_error(i) # "None" THEN db_error(i)
    ELSE should_connect_to(disk, p, current_time)

Res(op, i, ret) == [op |-> op, i |-> i, ret |-> ret]

\* ------------------------------------------------------------------ Init
Init ==
    /\ clock = 0
    /\ disk = EmptyDisk
    /\ inst = [i \in Instances |-> NoInst]
    /\ result = Res("none", 0, "None")
    /\ lastFail = [p \in Peers |-> NoFail]
    /\ foreign = FALSE
    /\ mem = [i \in Instances |-> EmptyDisk]
    /\ pend = [i \in Instances |-> NoPend]
    /\ calls = [i \in Instances |-> [p \in Peers |-> 0]]
    /\ raced = [p \in Peers |-> FALSE]

\* --------------------------------------------------------------- actions
\* h = SQLitePeerInfoPersistence(path): connect, then setup_schema; the
\* owner's variable h is bound to the new object whatever it held before
Construct(i) ==
    /\ LET s == setup_schema(disk) IN
       /\ disk' = s.db
       /\ inst' = [inst EXCEPT ![i] = IF s.close THEN ClosedInst ELSE OpenInst]
       /\ result' = Res("construct", i, s.ret)
    /\ UNCHANGED <<clock, lastFail, foreign>>
    /\ UNCHANGED aux

\* the process dies inside the constructor, k statements of the schema block
\* done; its objects are gone and a new process starts with none
ConstructCrash(i, k) ==
    /\ schema_already_created(disk) = "False"
    /\ disk' = create_schema(disk, k).db
    /\ inst' = [j \in Instances |-> NoInst]
    /\ result' = Res("crash", 0, "None")
    /\ UNCHANGED <<clock, lastFail, foreign>>
    /\ UNCHANGED aux

\* the process dies between calls
Crash ==
    /\ \E i \in Instances : inst[i].st = "live"
    /\ inst' = [j \in Instances |-> NoInst]
    /\ result' = Res("crash", 0, "None")
    /\ UNCHANGED <<clock, disk, lastFail, foreign>>
    /\ UNCHANGED aux

\* a public setup_schema() call on an existing instance
SetupSchema(i) ==
    /\ inst[i].st = "live"
    /\ IF ~must_be_open(i)
       THEN /\ result' = Res("setup_schema", i, "ClosedException")
            /\ UNCHANGED <<disk, inst>>
       ELSE LET s == setup_schema(disk) IN
            /\ disk' = s.db
            /\ inst' = [inst EXCEPT ![i] = IF s.close THEN close(@).inst ELSE @]
            /\ result' = Res("setup_schema", i, s.ret)
    /\ UNCHANGED <<clock, lastFail, foreign>>
    /\ UNCHANGED aux

RecordFailure(i, p, t, r) ==
    /\ inst[i].st = "live"
    /\ IF ~must_be_open(i)
       THEN /\ result' = Res("record_failure", i, "ClosedException")
            /\ UNCHANGED <<disk, lastFail>>
       ELSE IF db_error(i) # "None"
       THEN /\ result' = Res("record_failure", i, db_error(i))
            /\ UNCHANGED <<disk, lastFail>>
       ELSE /\ fetch_node(disk, p) # NoRow => fetch_node(disk, p).error_count < MaxErrors
            /\ disk' = record_failure(disk, p, t, r, current_time)
            /\ lastFail' = [lastFail EXCEPT ![p] = [at |-> current_time, timeout |-> t]]
            /\ result' = Res("record_failure", i, "None")
    /\ UNCHANGED <<clock, inst, foreign>>
    /\ UNCHANGED aux

\* the process dies inside record_failure on an open store, k steps done
RecordFailureCrash(i, p, t, r, k) ==
    /\ inst[i].st = "live"
    /\ must_be_open(i)
    /\ db_error(i) = "None"
    /\ fetch_node(disk, p) # NoRow => fetch_node(disk, p).error_count < MaxErrors
    /\ disk' = record_failure_crash(disk, p, t, r, current_time, k)
    /\ lastFail' = IF disk' = disk THEN lastFail
                   ELSE [lastFail EXCEPT ![p] = [at |-> current_time, timeout |-> t]]
    /\ inst' = [j \in Instances |-> NoInst]
    /\ result' = Res("record_failure", i, "crash")
    /\ UNCHANGED <<clock, foreign>>
    /\ UNCHANGED aux

ShouldConnectTo(i, p) ==
    /\ inst[i].st = "live"
    /\ result' = Res("should_connect_to", i, call_should_connect_to(i, p))
    /\ UNCHANGED <<clock, disk, inst, lastFail, foreign>>
    /\ UNCHANGED aux

Close(i) ==
    /\ inst[i].st = "live"
    /\ inst' = [inst EXCEPT ![i] = close(@).inst]
    /\ result' = Res("close", i, close(inst[i]).ret)
    /\ UNCHANGED <<clock, disk, lastFail, foreign>>
    /\ UNCHANGED aux

\* the clock advances by one tick
Tick ==
    /\ clock < MaxTime
    /\ clock' = clock + 1
    /\ UNCHANGED <<disk, inst, result, lastFail, foreign>>
    /\ UNCHANGED aux

\* another program writes a schema_version table this code rejects into a
\* file that holds no tables yet
MalformedRows ==
    { rows \in UNION { [1..n -> {SchemaVersion, SchemaVersion + 1}] : n \in 0..MaxVersionRows } :
        rows # <<SchemaVersion>> }

ForeignWrite(rows) ==
    /\ disk.tables = {}
    /\ \A i \in Instances : inst[i].st # "live"
    /\ disk' = [disk EXCEPT !.tables = {"schema_version"}, !.schema_version = rows]
    /\ foreign' = TRUE
    /\ UNCHANGED <<clock, inst, result, lastFail>>
    /\ UNCHANGED aux

Next ==
    \/ \E i \in Owner : Construct(i)
    \/ \E i \in Owner, k \in 0..3 : ConstructCrash(i, k)
    \/ Crash
    \/ \E i \in Owner : SetupSchema(i)
    \/ \E i \in Owner, p \in Peers, t \in Timeouts, r \in Reasons : RecordFailure(i, p, t, r)
    \/ \E i \in Owner, p \in Peers : ShouldConnectTo(i, p)
    \/ \E i \in Owner : Close(i)
    \/ Tick
    \/ \E rows \in MalformedRows : ForeignWrite(rows)

Spec == Init /\ [][Next]_vars

\* ------------------------------------- the process dies while recording
\* One owner recording failures, the process dying inside record_failure at
\* any of its steps, and a new process opening the storage afterwards.
NextCrash ==
    \/ \E i \in Owner : Construct(i)
    \/ \E i \in Owner, p \in Peers, t \in Timeouts, r \in Reasons : RecordFailure(i, p, t, r)
    \/ \E i \in Owner, p \in Peers, t \in Timeouts, r \in Reasons, k \in 0..3 :
            RecordFailureCrash(i, p, t, r, k)
    \/ \E i \in Owner, p \in Peers : ShouldConnectTo(i, p)
    \/ Tick

SpecCrash == Init /\ [][NextCrash]_vars

\* ------------------------------------------------------ ephemeral stores
\* MemoryPeerInfoPersistence: the same class on Path(":memory:").  Every
\* sqlite3.connect(":memory:") opens a new, empty database private to that
\* connection, and closing the connection discards it.

\* a connection that attaches to the database the other instance holds
memory_db_shared(m, i) == m[CHOOSE j \in Instances : j # i]

\* the database a new ":memory:" connection of instance i sees
memory_db(m, i) == EmptyDisk

mem_db_error(i) ==
    IF inst[i].db = "None" THEN "AttributeError"
    ELSE IF "bad_nodes" \notin mem[i].tables THEN "OperationalError"
    ELSE "None"

mem_call_should_connect_to(i, p) ==
    IF ~must_be_open(i) THEN "ClosedException"
    ELSE IF mem_db_error(i) # "None" THEN mem_db_error(i)
    ELSE should_connect_to(mem[i], p, current_time)

\* h = MemoryPeerInfoPersistence()
MemConstruct(i) ==
    /\ LET s == setup_schema(memory_db(mem, i)) IN
       /\ mem' = [mem EXCEPT ![i] = s.db]
       /\ inst' = [inst EXCEPT ![i] = IF s.close THEN ClosedInst ELSE OpenInst]
       /\ result' = Res("construct", i, s.ret)
    /\ UNCHANGED <<clock, disk, lastFail, foreign, pend, calls, raced>>

MemRecordFailure(i, p, t, r) ==
    /\ inst[i].st = "live"
    /\ IF ~must_be_open(i)
       THEN /\ result' = Res("record_failure", i, "ClosedException")
            /\ UNCHANGED mem
       ELSE IF mem_db_error(i) # "None"
       THEN /\ result' = Res("record_failure", i, mem_db_error(i))
            /\ UNCHANGED mem
       ELSE /\ fetch_node(mem[i], p) # NoRow => fetch_node(mem[i], p).error_count < MaxErrors
            /\ mem' = [mem EXCEPT ![i] = record_failure(@, p, t, r, current_time)]
            /\ result' = Res("record_failure", i, "None")
    /\ UNCHANGED <<clock, disk, inst, lastFail, foreign, pend, calls, raced>>

MemShouldConnectTo(i, p) ==
    /\ inst[i].st = "live"
    /\ result' = Res("should_connect_to", i, mem_call_should_connect_to(i, p))
    /\ UNCHANGED <<clock, disk, inst, lastFail, foreign, mem, pend, calls, raced>>

\* close() of an ephemeral store: the connection's database is gone with it
MemClose(i) ==
    /\ inst[i].st = "live"
    /\ inst' = [inst EXCEPT ![i] = close(@).inst]
    /\ mem' = [mem EXCEPT ![i] = IF close(inst[i]).ret = "None" THEN EmptyDisk ELSE @]
    /\ result' = Res("close", i, close(inst[i]).ret)
    /\ UNCHANGED <<clock, disk, lastFail, foreign, pend, calls, raced>>

\* two ephemeral stores in one process, as in test_memory_does_not_persist
NextMem ==
    \/ \E i \in Instances : MemConstruct(i)
    \/ \E i \in Instances, p \in Peers : MemRecordFailure(i, p, 1, "r1")
    \/ \E i \in Instances, p \in Peers : MemShouldConnectTo(i, p)
    \/ \E i \in Instances : MemClose(i)

SpecMem == Init /\ [][NextMem]_vars

\* ------------------------------------------- two handles on one storage
\* Two store objects constructed on the same path, used by two threads or
\* processes.  A record_failure call is two steps of the storage: the SELECT
\* of _fetch_node, then the transaction of _insert_node or _update_node;
\* steps of the other handle can fall between them.

\* a write that inserts whatever the fetch returned
record_failure_write_insert(d, row, enode, timeout, reason, now) ==
    insert_node(d, enode, now + timedelta(timeout), reason,
                IF row # NoRow THEN row.error_count + 1 ELSE 1)

\* record_failure from "if row:" on, with the row fetched earlier
record_failure_write(d, row, enode, timeout, reason, now) ==
    IF row # NoRow
    THEN LET new_error_count == row.error_count + 1
             usable_time == now + timedelta(timeout * new_error_count)
         IN update_node(d, enode, usable_time, reason, new_error_count)
    ELSE LET usable_time == now + timedelta(timeout)
         IN insert_node(d, enode, usable_time, reason, 1)

TotalCalls(p) == calls[1][p] + calls[2][p]

Pending(p) == \E i \in Instances : pend[i].enode = p

\* record_failure up to "now = current_time()": the row is fetched
RecordFailureBegin(i, p, t, r) ==
    /\ inst[i].st = "live"
    /\ must_be_open(i)
    /\ db_error(i) = "None"
    /\ pend[i] = NoPend
    /\ TotalCalls(p) < MaxErrors
    /\ pend' = [pend EXCEPT ![i] = [enode |-> p, row |-> fetch_node(disk, p),
                                    now |-> current_time, timeout |-> t, reason |-> r]]
    /\ calls' = [calls EXCEPT ![i][p] = @ + 1]
    /\ raced' = [raced EXCEPT ![p] = @ \/ Pending(p)]
    /\ UNCHANGED <<clock, disk, inst, result, lastFail, foreign, mem>>

\* the rest of record_failure: the INSERT or UPDATE and its commit
RecordFailureEnd(i) ==
    /\ pend[i] # NoPend
    /\ disk' = record_failure_write(disk, pend[i].row, pend[i].enode,
                                    pend[i].timeout, pend[i].reason, pend[i].now)
    /\ lastFail' = [lastFail EXCEPT ![pend[i].enode] =
                        [at |-> pend[i].now, timeout |-> pend[i].timeout]]
    /\ pend' = [pend EXCEPT ![i] = NoPend]
    /\ result' = Res("record_failure", i, "None")
    /\ UNCHANGED <<clock, inst, foreign, mem, calls, raced>>

\* a thread is inside one call at a time: its handle is not rebound and
\* not queried while its record_failure is between fetch and write
ConcConstruct(i) ==
    /\ pend[i] = NoPend
    /\ Construct(i)

ConcShouldConnectTo(i, p) ==
    /\ pend[i] = NoPend
    /\ ShouldConnectTo(i, p)

NextConc ==
    \/ \E i \in Instances : ConcConstruct(i)
    \/ \E i \in Instances, p \in Peers : RecordFailureBegin(i, p, 1, "r1")
    \/ \E i \in Instances : RecordFailureEnd(i)
    \/ \E i \in Instances, p \in Peers : ConcShouldConnectTo(i, p)

SpecConc == Init /\ [][NextConc]_vars

\* ------------------------------------------------- the timeout scenario
\* One peer failing with a timeout of 10 seconds while a patched clock moves
\* in whole seconds, as in test_timeout_works, on a durable store.
ScenarioTimeout == 10

ScenarioEnd == timedelta(3 * ScenarioTimeout)

\* current_time += datetime.timedelta(seconds=1)
ScenarioTick ==
    /\ clock < ScenarioEnd
    /\ clock' = clock + timedelta(1)
    /\ UNCHANGED <<disk, inst, result, lastFail, foreign>>
    /\ UNCHANGED aux

NextScenario ==
    \/ \E i \in Owner : Construct(i)
    \/ \E i \in Owner : RecordFailure(i, "pA", ScenarioTimeout, "r1")
    \/ \E i \in Owner : ShouldConnectTo(i, "pA")
    \/ ScenarioTick

SpecScenario == Init /\ [][NextScenario]_vars

\* ---------------------------------------------- callers' own timeouts
\* record_failure takes the timeout from its caller, and callers pass
\* different ones; a short and a long one are enough to tell them apart.
VariedTimeouts == {1, 3}

NextTimeouts ==
    \/ \E i \in Owner : Construct(i)
    \/ \E i \in Owner, t \in VariedTimeouts : RecordFailure(i, "pA", t, "r1")
    \/ \E i \in Owner : ShouldConnectTo(i, "pA")
    \/ Tick

SpecTimeouts == Init /\ [][NextTimeouts]_vars

\* ------------------------------------------- the timestamp round trip
\* A time x, here the clock, is written with time_to_str as _insert_node and
\* _update_node do, and the text is read back with str_to_time as
\* should_connect_to does.
MaxInstant == 40

InitRoundTrip ==
    /\ clock \in 0..MaxInstant
    /\ disk = EmptyDisk
    /\ inst = [i \in Instances |-> NoInst]
    /\ result = Res("none", 0, "None")
    /\ lastFail = [p \in Peers |-> NoFail]
    /\ foreign = FALSE
    /\ mem = [i \in Instances |-> EmptyDisk]
    /\ pend = [i \in Instances |-> NoPend]
    /\ calls = [i \in Instances |-> [p \in Peers |-> 0]]
    /\ raced = [p \in Peers |-> FALSE]

TimeToStr ==
    /\ result.op = "none"
    /\ result' = Res("time_to_str", 0, time_to_str(clock))
    /\ UNCHANGED <<clock, disk, inst, lastFail, foreign>>
    /\ UNCHANGED aux

StrToTime ==
    /\ result.op = "time_to_str"
    /\ result' = Res("str_to_time", 0, str_to_time(result.ret))
    /\ UNCHANGED <<clock, disk, inst, lastFail, foreign>>
    /\ UNCHANGED aux

NextRoundTrip ==
    \/ TimeToStr
    \/ StrToTime

SpecRoundTrip == InitRoundTrip /\ [][NextRoundTrip]_vars

\* ------------------------------------------------------------ properties
IsOpen(i) == inst[i].st = "live" /\ ~inst[i].closed
Failed(p) == lastFail[p] # NoFail
CountRows(d, p) == Cardinality({k \in 1..Len(d.bad_nodes) : d.bad_nodes[k].enode = p})

\* C1: after record_failure(p, t, r) at clock time T, with no later
\* record_failure for p, should_connect_to(p) on an open store returns false
\* at every clock time in [T, T + t), whole-second T or not.
C1_BackoffWindowHolds ==
    \A i \in Instances, p \in Peers :
        (/\ IsOpen(i)
         /\ Failed(p)
         /\ current_time >= lastFail[p].at
         /\ current_time < lastFail[p].at + timedelta(lastFail[p].timeout))
        => call_should_connect_to(i, p) = "False"

\* C2: after the last record_failure(p, t, r) at time now the row of p holds
\* unusable_until = now + t * error_count, exactly.
C2_UntilIsExactlyLinear ==
    \A p \in Peers :
        Failed(p) =>
            /\ fetch_node(disk, p) # NoRow
            /\ str_to_time(fetch_node(disk, p).until)
                 = lastFail[p].at
                   + timedelta(lastFail[p].timeout * fetch_node(disk, p).error_count)

\* C3: on an open store should_connect_to(p) returns true for every peer p
\* for which no failure was ever recorded in the storage, at any clock time
\* and whatever was recorded for other peers.
C3_UnknownPeerConnectable ==
    \A i \in Instances, p \in Peers :
        (IsOpen(i) /\ ~Failed(p)) => call_should_connect_to(i, p) = "True"

C3_Witness ==
    /\ IsOpen(1)
    /\ ~Failed("pA")
    /\ Failed("pB")
    /\ call_should_connect_to(1, "pB") = "False"
    /\ result = Res("should_connect_to", 1, "True")

\* C4 as stated: after record_failure(p, t, r) at time T, with no later
\* record_failure for p, should_connect_to(p) returns true at every clock
\* time >= T + t.
C4_ReleasedAfterTimeout ==
    \A i \in Instances, p \in Peers :
        (/\ IsOpen(i)
         /\ Failed(p)
         /\ current_time >= lastFail[p].at + timedelta(lastFail[p].timeout))
        => call_should_connect_to(i, p) = "True"

\* C4 amended: after record_failure(p, t, r) at time T that left the row of p
\* with error_count n, with no later record_failure for p, should_connect_to(p)
\* returns true at every clock time >= T + t * n.
C4_ReleasedAfterBackoff ==
    \A i \in Instances, p \in Peers :
        (/\ IsOpen(i)
         /\ Failed(p)
         /\ fetch_node(disk, p) # NoRow
         /\ current_time >= lastFail[p].at
              + timedelta(lastFail[p].timeout * fetch_node(disk, p).error_count))
        => call_should_connect_to(i, p) = "True"

C4_Witness ==
    /\ IsOpen(1)
    /\ Failed("pA")
    /\ fetch_node(disk, "pA") # NoRow
    /\ fetch_node(disk, "pA").error_count = 2
    /\ current_time >= lastFail["pA"].at
         + timedelta(lastFail["pA"].timeout * fetch_node(disk, "pA").error_count)
    /\ ~Failed("pB")
    /\ result = Res("should_connect_to", 1, "True")

\* C5: on a closed store record_failure, should_connect_to and setup_schema
\* raise ClosedException and change neither the storage nor the store.
C5_ClosedStoreRejects ==
    [][\A i \in Instances :
        (inst[i].st = "live" /\ inst[i].closed) =>
            \A p \in Peers, t \in Timeouts, r \in Reasons :
                \/ /\ result'.ret = "ClosedException"
                   /\ disk' = disk
                   /\ inst' = inst
                \/ ~(RecordFailure(i, p, t, r) \/ ShouldConnectTo(i, p) \/ SetupSchema(i))]_vars

C5_Witness ==
    /\ inst[1] = ClosedInst
    /\ Len(disk.bad_nodes) > 0
    /\ result = Res("record_failure", 1, "ClosedException")

\* C6: close() leaves the storage as it is, and constructing a store on a
\* storage this code initialised succeeds with the storage unchanged: the
\* records are those held before, should_connect_to answers from them and the
\* next record_failure continues from the stored error_count.
C6_DurableRoundTrip ==
    [][\A i \in Instances :
        /\ Close(i) => disk' = disk
        /\ (Construct(i) /\ schema_already_created(disk) = "True") =>
              /\ result'.ret = "None"
              /\ inst'[i] = OpenInst
              /\ disk' = disk
              /\ \A p \in Peers :
                    /\ call_should_connect_to(i, p)'
                         = should_connect_to(disk, p, current_time)
                    /\ \A t \in Timeouts, r \in Reasons :
                          fetch_node(disk, p) # NoRow =>
                              fetch_node(record_failure(disk', p, t, r, current_time), p).error_count
                                = fetch_node(disk, p).error_count + 1]_vars

C6_Witness ==
    /\ result = Res("construct", 1, "None")
    /\ inst[1] = OpenInst
    /\ Len(disk.bad_nodes) = 2
    /\ fetch_node(disk, "pA").error_count = 2
    /\ call_should_connect_to(1, "pA") = "False"

\* C7: constructing a store on a storage whose schema_version table holds no
\* row, several rows, or one row that is not 1 raises, and leaves the store
\* closed with its handle released, so that every call through it is rejected.
Malformed(d) ==
    /\ "schema_version" \in d.tables
    /\ \/ Len(d.schema_version) = 0
       \/ Len(d.schema_version) > 1
       \/ Len(d.schema_version) = 1 /\ d.schema_version[1] # 1

C7_MalformedSchemaFailsClosed ==
    [][\A i \in Instances :
        (Construct(i) /\ Malformed(disk)) =>
            /\ result'.ret = "Exception"
            /\ inst'[i].closed
            /\ inst'[i].db = "None"
            /\ disk' = disk
            /\ \A p \in Peers : call_should_connect_to(i, p)' = "ClosedException"]_vars

C7_Witness ==
    /\ result = Res("construct", 1, "Exception")
    /\ inst[1] = ClosedInst
    /\ Len(disk.schema_version) > 1
    /\ disk.schema_version[1] = 1

\* C8: whatever the point at which the process dies in setup_schema, a
\* storage only this code has written holds either no table at all or both
\* tables and the one version row 1.
C8_SchemaCreationAtomic ==
    ~foreign =>
        \/ disk.tables = {}
        \/ /\ disk.tables = {"bad_nodes", "schema_version"}
           /\ disk.schema_version = <<1>>

\* C9: the bad_nodes table holds at most one row per peer.
C9_OneRowPerPeer ==
    \A p \in Peers : CountRows(disk, p) <= 1

C9_Witness ==
    /\ result = Res("record_failure", 1, "None")
    /\ CountRows(disk, "pA") = 1
    /\ CountRows(disk, "pB") = 1
    /\ fetch_node(disk, "pA").error_count = 2

\* C10: error_count is at least 1 once a row exists, no step removes a row
\* or lowers its error_count, and each record_failure that goes through
\* raises the peer's error_count by exactly 1 (from 0 when there is no row).
ErrorCount(d, p) ==
    LET row == fetch_node(d, p) IN IF row = NoRow THEN 0 ELSE row.error_count

C10_ErrorCountMonotonic ==
    [][/\ \A k \in 1..Len(disk'.bad_nodes) : disk'.bad_nodes[k].error_count >= 1
       /\ \A p \in Peers :
            LET old == ErrorCount(disk, p)
                new == ErrorCount(disk', p)
            IN /\ disk'.bad_nodes = disk.bad_nodes \/ new >= old
               /\ (result'.op = "record_failure" /\ result'.ret = "None"
                     /\ clock' = clock /\ inst' = inst) =>
                     \A i \in Instances, t \in Timeouts, r \in Reasons :
                         RecordFailure(i, p, t, r) => new = old + 1]_vars

C10_Witness ==
    /\ result = Res("construct", 1, "None")
    /\ ErrorCount(disk, "pA") = 2
    /\ ErrorCount(disk, "pB") = 1
    /\ current_time = MaxTime

\* C11: a store object is Open (closed flag false, handle connected) or
\* Closed (closed flag true, handle released) and nothing else; a Closed
\* object stays Closed until the process dies or the variable is bound to a
\* newly constructed object; record_failure and should_connect_to complete
\* only on an Open object.
C11_ClosedIsTerminal ==
    [][\A i \in Instances :
        /\ inst'[i] \in {NoInst, OpenInst, ClosedInst}
        /\ (inst[i].st = "live" /\ inst[i].closed) =>
              \/ inst'[i] = inst[i]
              \/ inst'[i] = NoInst
              \/ Construct(i)
        /\ (/\ result'.i = i
            /\ result'.op \in {"record_failure", "should_connect_to"}
            /\ result'.ret \in {"None", "True", "False"})
           => (IsOpen(i) /\ inst'[i] = OpenInst)]_vars

C11_Witness ==
    /\ inst[1] = ClosedInst
    /\ Len(disk.bad_nodes) > 0
    /\ result = Res("setup_schema", 1, "ClosedException")

\* C12: a newly constructed ephemeral store holds no failure record and
\* answers true for every peer, whatever the other instance holds or the
\* instance before it held; and a record_failure on one ephemeral store
\* changes neither the database of the other nor what its should_connect_to
\* answers.
C12_EphemeralStoresIsolated ==
    [][\A i \in Instances :
        /\ MemConstruct(i) =>
              /\ mem'[i].bad_nodes = <<>>
              /\ \A p \in Peers : mem_call_should_connect_to(i, p)' = "True"
        /\ \A j \in Instances \ {i}, p \in Peers :
              MemRecordFailure(i, p, 1, "r1") =>
                  /\ mem'[j] = mem[j]
                  /\ \A q \in Peers :
                        mem_call_should_connect_to(j, q)' = mem_call_should_connect_to(j, q)]_vars

C12_Witness ==
    /\ inst[1] = OpenInst
    /\ inst[2] = OpenInst
    /\ fetch_node(mem[1], "pA") # NoRow
    /\ mem_call_should_connect_to(1, "pA") = "False"
    /\ mem[2].bad_nodes = <<>>
    /\ mem[2].tables # {}
    /\ result = Res("should_connect_to", 2, "True")

\* C13: close() called on a store that is already Closed ends with
\* ClosedException and leaves the store Closed with its handle released.
C13_CloseOnClosedRejected ==
    [][\A i \in Instances :
        (inst[i].st = "live" /\ inst[i].closed /\ Close(i)) =>
            /\ result'.ret = "ClosedException"
            /\ inst'[i] = ClosedInst]_vars

\* C14: a construction that succeeds leaves schema_version with exactly one
\* row of value 1; from then on no step of open, record_failure,
\* should_connect_to, setup_schema, close, crash or reopen changes the set
\* of tables or the rows of schema_version, and every later open succeeds.
C14_SchemaVersionWrittenOnce ==
    [][/\ \A i \in Instances :
            (Construct(i) /\ result'.ret = "None") =>
                /\ disk'.schema_version = <<SchemaVersion>>
                /\ {"bad_nodes", "schema_version"} \subseteq disk'.tables
       /\ schema_already_created(disk) = "True" =>
            /\ disk'.tables = disk.tables
            /\ disk'.schema_version = <<SchemaVersion>>
            /\ \A i \in Instances :
                  (Construct(i) \/ (IsOpen(i) /\ SetupSchema(i))) => result'.ret = "None"]_vars

C14_Witness ==
    /\ result = Res("construct", 1, "None")
    /\ inst[1] = OpenInst
    /\ disk.schema_version = <<SchemaVersion>>
    /\ ErrorCount(disk, "pA") = 2

\* C15: whatever happens to the process, a step changes the failure records
\* only as one complete record_failure does: the rows after it are the rows
\* before it, or the rows one whole record_failure(p, t, r) at the current
\* time produces, with until, reason and error_count of p's row all new
\* together; in particular a record_failure cut short by a crash leaves one
\* of these two.
C15_RecordFailureAtomic ==
    [][\/ disk'.bad_nodes = disk.bad_nodes
       \/ \E p \in Peers, t \in Timeouts, r \in Reasons :
             disk'.bad_nodes = record_failure(disk, p, t, r, current_time).bad_nodes]_vars

C15_Witness ==
    /\ result = Res("record_failure", 1, "crash")
    /\ \A i \in Instances : inst[i] = NoInst
    /\ ErrorCount(disk, "pA") = 2
    /\ lastFail["pA"].at = clock
    /\ clock > 0
    /\ fetch_node(disk, "pA").until = time_to_str(clock + 2 * timedelta(lastFail["pA"].timeout))

\* C16: a construction that fails, because the schema check raised or
\* because the tables could not be created, leaves the tables, the rows of
\* schema_version and the failure records exactly as they were, and a
\* construction on the storage it leaves fails with the same error.
C16_FailedConstructionChangesNothing ==
    [][\A i \in Instances :
        (result'.ret \in {"Exception", "OperationalError"} /\ Construct(i)) =>
            /\ disk' = disk
            /\ setup_schema(disk').ret = result'.ret
            /\ setup_schema(disk').db = disk']_vars

C16_Witness ==
    /\ result = Res("construct", 1, "Exception")
    /\ inst[1] = ClosedInst
    /\ disk.tables = {"schema_version"}
    /\ disk.schema_version = <<SchemaVersion + 1>>

\* C17: on a durable store with whole-second times and a timeout of 10
\* seconds, a peer without a record is connectable; after its first failure
\* at T=0 it is stored as unusable until 10, refused at T=1 and accepted at
\* T=10; after its second failure at T=10 it is stored as unusable until 30,
\* refused at T=29 and accepted at T=30.
C17_ConcreteScenario ==
    IsOpen(1) /\ db_error(1) = "None" =>
        LET row == fetch_node(disk, "pA")
            answer == call_should_connect_to(1, "pA")
        IN /\ row = NoRow => answer = "True"
           /\ (ErrorCount(disk, "pA") = 1 /\ lastFail["pA"].at = 0) =>
                 /\ row.until = 10
                 /\ clock = timedelta(1) => answer = "False"
                 /\ clock = timedelta(10) => answer = "True"
           /\ (ErrorCount(disk, "pA") = 2 /\ lastFail["pA"].at = timedelta(10)) =>
                 /\ row.until = 30
                 /\ clock = timedelta(29) => answer = "False"
                 /\ clock = timedelta(30) => answer = "True"

C17_Witness ==
    /\ IsOpen(1)
    /\ ErrorCount(disk, "pA") = 2
    /\ lastFail["pA"] = [at |-> timedelta(10), timeout |-> ScenarioTimeout]
    /\ fetch_node(disk, "pA").until = 30
    /\ clock = timedelta(30)
    /\ result = Res("should_connect_to", 1, "True")

\* C18: once every record_failure call of the two handles has returned, the
\* storage holds for each peer that failed exactly one row, and its
\* error_count is the number of record_failure calls made for that peer.
C18_InterleavedCallsSerialize ==
    \A p \in Peers :
        (TotalCalls(p) > 0 /\ ~Pending(p)) =>
            /\ CountRows(disk, p) = 1
            /\ ErrorCount(disk, p) = TotalCalls(p)

\* C18, amended: the same holds for every peer whose record_failure calls
\* have never overlapped, each call having returned before the next of either
\* handle for that peer fetched its row.
C18_NonOverlappingCallsSerialize ==
    \A p \in Peers :
        (TotalCalls(p) > 0 /\ ~Pending(p) /\ ~raced[p]) =>
            /\ CountRows(disk, p) = 1
            /\ ErrorCount(disk, p) = TotalCalls(p)

C18_Witness ==
    /\ IsOpen(1) /\ IsOpen(2)
    /\ calls[1]["pA"] = 1
    /\ calls[2]["pA"] = 1
    /\ ~raced["pA"]
    /\ ~Pending("pA")
    /\ CountRows(disk, "pA") = 1
    /\ ErrorCount(disk, "pA") = 2
    /\ result = Res("record_failure", 2, "None")

\* C19: with a clock that never goes back and positive timeouts, no step
\* moves the stored until of a peer's row to an earlier time, whatever
\* timeouts the record_failure calls are given.
C19_UntilNeverMovesEarlier ==
    [][\/ disk'.bad_nodes = disk.bad_nodes
       \/ \A p \in Peers :
             fetch_node(disk, p) # NoRow =>
                 /\ fetch_node(disk', p) # NoRow
                 /\ fetch_node(disk', p).until >= fetch_node(disk, p).until]_vars

\* C19, amended: no step moves the stored until of a peer's row to an
\* earlier time when the record_failure call is given a timeout at least as
\* long as the one of the call before it for that peer.
C19_UntilNeverMovesEarlierForLongerTimeout ==
    [][\/ disk'.bad_nodes = disk.bad_nodes
       \/ \A p \in Peers :
             (fetch_node(disk, p) # NoRow /\ lastFail'[p].timeout >= lastFail[p].timeout) =>
                 /\ fetch_node(disk', p) # NoRow
                 /\ fetch_node(disk', p).until >= fetch_node(disk, p).until]_vars

C19_Witness ==
    /\ IsOpen(1)
    /\ ErrorCount(disk, "pA") = 2
    /\ lastFail["pA"] = [at |-> 1, timeout |-> 3]
    /\ fetch_node(disk, "pA").until = time_to_str(1 + timedelta(3 * 2))
    /\ result = Res("record_failure", 1, "None")

\* C20: on a storage only this code has written, crashes inside the
\* constructor included, a valid single-row schema_version of value 1 comes
\* with the bad_nodes table, a construction that succeeded left bad_nodes in
\* place, and no open store fails a query for a missing table.
C20_VersionImpliesBadNodes ==
    ~foreign =>
        /\ schema_already_created(disk) = "True" => "bad_nodes" \in disk.tables
        /\ \A i \in Instances :
              /\ result = Res("construct", i, "None") => "bad_nodes" \in disk.tables
              /\ IsOpen(i) => db_error(i) = "None"
              /\ IsOpen(i) => \A p \in Peers : call_should_connect_to(i, p) \in {"True", "False"}

C20_Witness ==
    /\ ~foreign
    /\ IsOpen(1)
    /\ schema_already_created(disk) = "True"
    /\ "bad_nodes" \in disk.tables
    /\ fetch_node(disk, "pB") # NoRow
    /\ result = Res("should_connect_to", 1, "False")

\* C21: a should_connect_to call changes neither the storage nor the
\* instance; a record_failure(p, t, r) call leaves the tables and
\* schema_version as they were and, for every other peer q, the row of q,
\* the number of its rows and what should_connect_to(q) answers.
C21_FrameConditions ==
    [][/\ \A i \in Instances, p \in Peers :
            (result'.op = "should_connect_to" /\ ShouldConnectTo(i, p)) =>
                /\ disk' = disk
                /\ inst' = inst
       /\ \/ result'.op # "record_failure"
          \/ disk' = disk
          \/ /\ disk'.tables = disk.tables
             /\ disk'.schema_version = disk.schema_version
             /\ \A i \in Instances, p \in Peers :
                   \/ result'.i # i
                   \/ \A q \in Peers \ {p} :
                         /\ fetch_node(disk', q) = fetch_node(disk, q)
                         /\ CountRows(disk', q) = CountRows(disk, q)
                         /\ call_should_connect_to(i, q)' = call_should_connect_to(i, q)
                   \/ ~ \E t \in Timeouts, r \in Reasons : RecordFailure(i, p, t, r)]_vars

C21_Witness ==
    /\ result = Res("record_failure", 1, "None")
    /\ IsOpen(1)
    /\ lastFail["pA"].at = clock
    /\ ErrorCount(disk, "pA") = 2
    /\ ErrorCount(disk, "pB") = 1
    /\ lastFail["pB"].at < clock
    /\ call_should_connect_to(1, "pB") = "True"
    /\ call_should_connect_to(1, "pA") = "False"

\* C22: for every time x, str_to_time(time_to_str(x)) is x truncated down to
\* the whole second: it is a whole second, never later than x, less than one
\* second before x, and x itself when x has no sub-second part; and it is
\* what should_connect_to reads back from a row stored with until x.
C22_RoundTripTruncates ==
    result.op = "str_to_time" =>
        /\ result.ret = clock - (clock % TicksPerSecond)
        /\ LET d == insert_node(create_schema(EmptyDisk, 3).db, "pA", clock, "r1", 1)
           IN /\ str_to_time(fetch_node(d, "pA").until) = result.ret
              /\ should_connect_to(d, "pA", result.ret) = "True"
              /\ result.ret > 0 => should_connect_to(d, "pA", result.ret - 1) = "False"
        /\ result.ret % TicksPerSecond = 0
        /\ result.ret <= clock
        /\ clock - result.ret < TicksPerSecond
        /\ clock % TicksPerSecond = 0 => result.ret = clock

C22_Witness ==
    /\ result.op = "str_to_time"
    /\ clock % TicksPerSecond # 0
    /\ clock > TicksPerSecond
    /\ result.ret < clock

====
